---- MODULE Spec2Model ----
(***************************************************************************)
(* Lsof.generateJson (src/src/index.ts): one call of the retry loop that   *)
(* asks a model adapter for JSON, parses/repairs/validates the answer and  *)
(* retries with a corrective prompt.                                       *)
(*                                                                         *)
(* Strings are sequences of string tokens, so that concatenation, trim and *)
(* "contains" are computed.  An optional value (a ?: field, a parameter    *)
(* with a default) is <<>> when absent and <<v>> when given.               *)
(*                                                                         *)
(* Spec is one call on an instance without a logging option, SpecFair adds *)
(* that the adapter's promises settle, SpecLogging constructs the instance *)
(* with any logging option, SpecConcurrent has two calls in progress.      *)
(***************************************************************************)
EXTENDS Integers, Sequences, FiniteSets, TLC

VARIABLES
    defaultMaxRetries, \* this.defaultMaxRetries
    repairPrompt,      \* this.repairPrompt
    lsofOptions,       \* the options the instance was constructed with
    pc,                \* "idle" | "awaiting" | "resolved" | "rejected"
    frame,             \* parameters of the generateJson invocation awaiting the adapter
    calls,             \* every invocation of llmAdapter so far, with the frame that made it
    attempts,          \* how each adapter invocation settled and what the attempt did with it
    result,            \* the value the call resolved with, <<>> before
    thrown,            \* the error the call rejected with, <<>> before
    logger,            \* this.logger: its level and whether it is silent
    logs,              \* the entries the logger's transport has written
    current,           \* which generateJson call pc .. thrown are the state of
    other              \* the state of the other call made on the instance, if any

vars == <<defaultMaxRetries, repairPrompt, lsofOptions, pc, frame, calls, attempts, result,
          thrown, logger, logs, current, other>>

----------------------------------------------------------------------------
\* Bounds of the model

\* largest retry bound an instance or a call is configured with (0..MaxRetriesBound)
MaxRetriesBound == 2

\* largest retryCount a caller passes to the public entry point
MaxStartCount == 1

----------------------------------------------------------------------------
\* Optional values

Coalesce(opt, default) == IF opt = <<>> THEN default ELSE opt[1]

----------------------------------------------------------------------------
\* Constants of the program

HardDefaultMaxRetries == 3

DefaultJsonSchemaIndent == 2

\* prompt.slice(0, 100) in the debug entry of generateTextResponse
InstructionSliceLength == 100

DefaultLogLevel == "info"

defaultPromptPrefix == "- You MUST respond only with valid JSON. [...] OJSON must follow these rules:"

defaultRepairPromptPrefix ==
    "The returned JSON is invalid or does not follow the schema.\nCorrect and respond ONLY with valid JSON."

\* `${prefix}\nError details: ${error}`
defaultRepairPromptFn(prefix, error) == <<prefix, "\n", "Error details:", " ", error>>

\* the README's custom repair prompt: `${prefix} \n >> ${error}`
readmeRepairPromptPrefix ==
    "Warning: You generated invalid data. Fix it immediately based on this error:"

readmeRepairPromptFn(prefix, error) == <<prefix, " ", "\n", " ", ">>", " ", error>>

ApplyRepairPromptFn(fn, prefix, error) ==
    IF fn = "defaultRepairPromptFn"
    THEN defaultRepairPromptFn(prefix, error)
    ELSE readmeRepairPromptFn(prefix, error)

----------------------------------------------------------------------------
\* The adapter's answers and the external JSON / schema capabilities

RawValid == "{\"value\":10}"
RawExtraKey == "{\"value\":10,\"extra\":1}"
RawRepairable == "{ value: 10, }"
RawViolating == "{\"value\":\"x\"}"
RawRepairableViolating == "{ value: \"x\", }"
RawGarbage == "}"

RawResponses ==
    {RawValid, RawExtraKey, RawRepairable, RawViolating, RawRepairableViolating, RawGarbage}

\* messages of the errors the adapter itself rejects with
AdapterFailures == {"socket hang up"}

\* JSON.parse: the parsed value, or the SyntaxError's message
JsonParse(text) ==
    CASE text = RawValid ->
            [ok |-> TRUE, value |-> [value |-> <<"number", "10">>]]
      [] text = RawExtraKey ->
            [ok |-> TRUE, value |-> [value |-> <<"number", "10">>, extra |-> <<"number", "1">>]]
      [] text = RawViolating ->
            [ok |-> TRUE, value |-> [value |-> <<"string", "x">>]]
      [] text = RawRepairable ->
            [ok |-> FALSE, message |-> "Expected property name or '}' in JSON at position 2"]
      [] text = RawRepairableViolating ->
            [ok |-> FALSE, message |-> "Expected property name or '}' in JSON at position 2"]
      [] OTHER ->
            [ok |-> FALSE, message |-> "Unexpected token '}' is not valid JSON"]

\* jsonrepair: the repaired text, or a JSONRepairError's message
JsonRepair(text) ==
    CASE text = RawRepairable -> [ok |-> TRUE, text |-> RawValid]
      [] text = RawRepairableViolating -> [ok |-> TRUE, text |-> RawViolating]
      [] text \in {RawValid, RawExtraKey, RawViolating} -> [ok |-> TRUE, text |-> text]
      [] OTHER -> [ok |-> FALSE, message |-> "Unexpected end of json string at position 1"]

\* schema.parse for z.object({ value: z.number() }): the typed value (unknown keys
\* stripped), or the issues of the ZodError
SchemaParse(value) ==
    IF "value" \in DOMAIN value /\ value.value[1] = "number"
    THEN [ok |-> TRUE, data |-> [value |-> value.value]]
    ELSE [ok |-> FALSE,
          issues |-> <<[path |-> <<"value">>, code |-> "invalid_type",
                        message |-> "Invalid input: expected number, received string"]>>]

\* JSON.stringify(z.treeifyError(error))
TreeifyString(issues) ==
    IF issues = <<>>
    THEN "{\"errors\":[]}"
    ELSE "{\"errors\":[],\"properties\":{\"value\":{\"errors\":[\"Invalid input: expected number, received string\"]}}}"

\* JSON.stringify(schema.toJSONSchema(), null, indent)
JsonSchemaString(indent) ==
    IF indent = 0
    THEN "{\"type\":\"object\",\"properties\":{\"value\":{\"type\":\"number\"}},\"required\":[\"value\"]}"
    ELSE IF indent = DefaultJsonSchemaIndent
    THEN "{\n  \"type\": \"object\", [...indent 2]\n}"
    ELSE "{\n    \"type\": \"object\", [...indent 4]\n}"

----------------------------------------------------------------------------
\* The logger (winston, npm levels): an entry is written when the logger is not
\* silent and the entry's level is at most the logger's

LogLevelRank(level) ==
    CASE level = "error" -> 0
      [] level = "warn" -> 1
      [] level = "info" -> 2
      [] level = "debug" -> 5

LogEntry(level, message, meta) == [level |-> level, message |-> message, meta |-> meta]

\* this.log(level, message, data) for each of the entries, in order
Written(entries) ==
    IF logger.silent
    THEN <<>>
    ELSE SelectSeq(entries, LAMBDA e : LogLevelRank(e.level) <= LogLevelRank(logger.level))

\* String.prototype.slice(0, n) of a text given as tokens
RECURSIVE Slice(_, _)
Slice(text, n) ==
    IF text = <<>> \/ n <= 0 THEN <<>>
    ELSE IF Len(Head(text)) <= n
    THEN <<Head(text)>> \o Slice(Tail(text), n - Len(Head(text)))
    ELSE <<SubSeq(Head(text), 1, n)>>

----------------------------------------------------------------------------
\* Errors are objects: id is the attempt that created the object

ZodError(issues, id) ==
    [name |-> "ZodError", message |-> "[zod issues]", issues |-> issues, id |-> id]

LsofJsonParsingError(message, id) ==
    [name |-> "LsofJsonParsingError", message |-> message, issues |-> <<>>, id |-> id]

AdapterError(message, id) ==
    [name |-> "Error", message |-> message, issues |-> <<>>, id |-> id]

----------------------------------------------------------------------------
\* Prompt Builder

IsWhitespace(token) == token \in {"", " ", "\n", "\n\n"}

RECURSIVE TrimStart(_)
TrimStart(s) ==
    IF s # <<>> /\ IsWhitespace(Head(s)) THEN TrimStart(Tail(s)) ELSE s

RECURSIVE TrimEnd(_)
TrimEnd(s) ==
    IF s # <<>> /\ IsWhitespace(s[Len(s)]) THEN TrimEnd(SubSeq(s, 1, Len(s) - 1)) ELSE s

Trim(s) == TrimEnd(TrimStart(s))

\* `${prefix}\n${jsonSchemaString}\nInstruction:\n${instruction}`.trim()
buildPrompt(prefixOpt, instruction, jsonSchemaIndentOpt) ==
    Trim(<<Coalesce(prefixOpt, defaultPromptPrefix), "\n",
           JsonSchemaString(Coalesce(jsonSchemaIndentOpt, DefaultJsonSchemaIndent)), "\n",
           "Instruction:", "\n">> \o instruction)

Contains(text, token) == \E i \in 1..Len(text) : text[i] = token

----------------------------------------------------------------------------
\* Response Normalizer and Validation Gate

\* mutant of Validate: the parsed value is returned without asking the schema
ValidateUnchecked(parsedData, wasRepaired, repairInvoked, id) ==
    [ok |-> TRUE, data |-> parsedData, wasRepaired |-> wasRepaired,
     repairInvoked |-> repairInvoked]

\* schema.parse(parsedData) at the end of parseJson
Validate(parsedData, wasRepaired, repairInvoked, id) ==
    LET v == SchemaParse(parsedData) IN
    IF v.ok
    THEN [ok |-> TRUE, data |-> v.data, wasRepaired |-> wasRepaired,
          repairInvoked |-> repairInvoked]
    ELSE [ok |-> FALSE, error |-> ZodError(v.issues, id), repairInvoked |-> repairInvoked]

\* mutants of parseJson: repair before any direct parse; no repair at all
parseJsonRepairFirst(stringData, id) ==
    LET repaired == JsonRepair(stringData) IN
    IF repaired.ok /\ JsonParse(repaired.text).ok
    THEN Validate(JsonParse(repaired.text).value, TRUE, TRUE, id)
    ELSE [ok |-> FALSE, error |-> LsofJsonParsingError(repaired.message, id),
          repairInvoked |-> TRUE]

parseJsonNoRepair(stringData, id) ==
    LET first == JsonParse(stringData) IN
    IF first.ok
    THEN Validate(first.value, FALSE, FALSE, id)
    ELSE [ok |-> FALSE, error |-> LsofJsonParsingError(first.message, id),
          repairInvoked |-> FALSE]

\* mutant of parseJson: the error carries the repair failure's message, not the
\* first parse failure's
parseJsonRepairMessage(stringData, id) ==
    LET first == JsonParse(stringData) IN
    IF first.ok
    THEN Validate(first.value, FALSE, FALSE, id)
    ELSE LET repaired == JsonRepair(stringData) IN
         IF repaired.ok /\ JsonParse(repaired.text).ok
         THEN Validate(JsonParse(repaired.text).value, TRUE, TRUE, id)
         ELSE [ok |-> FALSE,
               error |-> LsofJsonParsingError(
                            IF repaired.ok THEN JsonParse(repaired.text).message
                            ELSE repaired.message, id),
               repairInvoked |-> TRUE]

\* the entries parseJson logs on its way
parseJsonLogs(stringData) ==
    LET first == JsonParse(stringData) IN
    IF first.ok
    THEN <<LogEntry("debug", "JSON parsed successfully on first attempt", <<>>)>>
    ELSE LET repaired == JsonRepair(stringData) IN
         <<LogEntry("warn", "JSON parsing failed, attempting repair...",
                    [error |-> first.message])>> \o
         IF repaired.ok /\ JsonParse(repaired.text).ok
         THEN <<LogEntry("info", "JSON repaired successfully", <<>>)>>
         ELSE <<LogEntry("error", "JSON repair failed",
                         [error |-> IF repaired.ok THEN JsonParse(repaired.text).message
                                    ELSE repaired.message])>>

\* parseJson: [data, wasRepaired], or the error it throws; repairInvoked records
\* whether jsonrepair was called on the way
parseJson(stringData, id) ==
    LET first == JsonParse(stringData) IN
    IF first.ok
    THEN Validate(first.value, FALSE, FALSE, id)
    ELSE LET repaired == JsonRepair(stringData) IN
         IF repaired.ok /\ JsonParse(repaired.text).ok
         THEN Validate(JsonParse(repaired.text).value, TRUE, TRUE, id)
         ELSE [ok |-> FALSE, error |-> LsofJsonParsingError(first.message, id),
               repairInvoked |-> TRUE]

----------------------------------------------------------------------------
\* The instance

RepairPromptOptionsSet ==
    [prefix : {<<>>, <<readmeRepairPromptPrefix>>}, fn : {<<>>, <<"readmeRepairPromptFn">>}]

LogLevel == {"debug", "info", "warn", "error"}

LoggingOptionsSet ==
    [enabled : {<<>>, <<TRUE>>, <<FALSE>>}, level : {<<>>} \cup {<<l>> : l \in LogLevel}]

\* the options of an instance constructed without a logging option
LsofOptionsSet ==
    [defaultMaxRetries : {<<>>} \cup {<<n>> : n \in 0..MaxRetriesBound},
     repairPrompt : {<<>>} \cup {<<r>> : r \in RepairPromptOptionsSet},
     logging : {<<>>}]

\* the options of an instance constructed with or without a logging option
LsofLoggingOptionsSet ==
    [defaultMaxRetries : {<<>>, <<1>>},
     repairPrompt : {<<>>, <<[prefix |-> <<>>, fn |-> <<"readmeRepairPromptFn">>]>>},
     logging : {<<>>} \cup {<<l>> : l \in LoggingOptionsSet}]

\* createLogger({ level: logging.level ?? "info", silent: !logging.enabled, ... })
CreateLogger(loggingOpt) ==
    LET logging == Coalesce(loggingOpt, [enabled |-> <<FALSE>>, level |-> <<"info">>])
    IN  [level |-> Coalesce(logging.level, DefaultLogLevel),
         silent |-> ~Coalesce(logging.enabled, FALSE)]

\* mutant of Constructor: defaultMaxRetries || 3, so that a configured 0 becomes 3
ConstructorFalsyDefault(options) ==
    [defaultMaxRetries |->
        IF options.defaultMaxRetries \in {<<>>, <<0>>}
        THEN HardDefaultMaxRetries
        ELSE options.defaultMaxRetries[1],
     repairPrompt |-> Coalesce(options.repairPrompt,
                               [prefix |-> <<defaultRepairPromptPrefix>>,
                                fn |-> <<"defaultRepairPromptFn">>]),
     logger |-> CreateLogger(options.logging)]

Constructor(options) ==
    [defaultMaxRetries |-> Coalesce(options.defaultMaxRetries, HardDefaultMaxRetries),
     repairPrompt |-> Coalesce(options.repairPrompt,
                               [prefix |-> <<defaultRepairPromptPrefix>>,
                                fn |-> <<"defaultRepairPromptFn">>]),
     logger |-> CreateLogger(options.logging)]

Init ==
    /\ \E options \in LsofOptionsSet :
          /\ lsofOptions = options
          /\ defaultMaxRetries = Constructor(options).defaultMaxRetries
          /\ repairPrompt = Constructor(options).repairPrompt
          /\ logger = Constructor(options).logger
    /\ pc = "idle"
    /\ frame = <<>>
    /\ calls = <<>>
    /\ attempts = <<>>
    /\ result = <<>>
    /\ thrown = <<>>
    /\ logs = <<>>
    /\ current = 1
    /\ other = <<>>

\* the same, for instances constructed with any logging option
InitLogging ==
    /\ \E options \in LsofLoggingOptionsSet :
          /\ lsofOptions = options
          /\ defaultMaxRetries = Constructor(options).defaultMaxRetries
          /\ repairPrompt = Constructor(options).repairPrompt
          /\ logger = Constructor(options).logger
    /\ pc = "idle"
    /\ frame = <<>>
    /\ calls = <<>>
    /\ attempts = <<>>
    /\ result = <<>>
    /\ thrown = <<>>
    /\ logs = <<>>
    /\ current = 1
    /\ other = <<>>

----------------------------------------------------------------------------
\* Retry Orchestrator

\* the options a caller passes to generateJson
GenerateJsonOptionsSet ==
    [llmAdapter : {"llmAdapter"},
     schema : {"z.object({ value: z.number() })"},
     retryCount : {<<>>} \cup {<<n>> : n \in 0..MaxStartCount},
     maxRetries : {<<>>} \cup {<<n>> : n \in 0..MaxRetriesBound},
     prompt : {<<"Generate value">>},
     prefix : {<<>>, <<"Answer in JSON:">>},
     jsonSchemaIndent : {<<>>, <<0>>}]

\* mutant of ResolveMaxRetries: maxRetries || this.defaultMaxRetries, so that an
\* explicit 0 falls back to the default
ResolveMaxRetriesFalsy(maxRetries) ==
    IF maxRetries \in {<<>>, <<0>>} THEN defaultMaxRetries ELSE maxRetries[1]

\* const finalMaxRetries = maxRetries ?? this.defaultMaxRetries
ResolveMaxRetries(maxRetries) == Coalesce(maxRetries, defaultMaxRetries)

\* mutants of ShouldRetry: one retry too few, one retry too many
ShouldRetryOffByOne(retryCount, finalMaxRetries) == retryCount + 1 < finalMaxRetries

ShouldRetryInclusive(retryCount, finalMaxRetries) == retryCount <= finalMaxRetries

\* mutant of ShouldRetry: the bound counts the retries of this call, whatever the
\* retryCount the caller started it with
ShouldRetryCountingFromStart(retryCount, finalMaxRetries) ==
    retryCount - Coalesce(calls[1].frame.options.retryCount, 0) < finalMaxRetries

\* if (retryCount < finalMaxRetries)
ShouldRetry(retryCount, finalMaxRetries) == retryCount < finalMaxRetries

\* mutants of MakeResult: the accepted attempt counted as a retry; wasRepaired kept
\* from any earlier attempt that was repaired
MakeResultCountingSuccess(parsedResponse, retryCount, wasRepaired) ==
    [data |-> parsedResponse,
     metadata |-> [retryCount |-> retryCount + 1, wasRepaired |-> wasRepaired]]

MakeResultStickyRepair(parsedResponse, retryCount, wasRepaired) ==
    [data |-> parsedResponse,
     metadata |-> [retryCount |-> retryCount,
                   wasRepaired |-> wasRepaired \/ \E i \in 1..Len(attempts) :
                                                      attempts[i].repairInvoked]]

\* the object generateJson returns
MakeResult(parsedResponse, retryCount, wasRepaired) ==
    [data |-> parsedResponse,
     metadata |-> [retryCount |-> retryCount, wasRepaired |-> wasRepaired]]

\* mutant of Rethrow: the error wrapped in a new Error object
RethrowWrapped(error) ==
    [name |-> "Error", message |-> error.message, issues |-> <<>>, id |-> 0]

\* throw error
Rethrow(error) == error

\* error instanceof ZodError ? JSON.stringify(z.treeifyError(error)) : error.message
ErrorMessage(error) ==
    IF error.name = "ZodError" THEN TreeifyString(error.issues) ELSE error.message

\* repainPromptFn(this.repairPrompt.prefix ?? defaultRepairPromptPrefix, errorMessage)
RepairPromptText(error) ==
    ApplyRepairPromptFn(Coalesce(repairPrompt.fn, "defaultRepairPromptFn"),
                        Coalesce(repairPrompt.prefix, defaultRepairPromptPrefix),
                        ErrorMessage(error))

\* mutants of RetryOptions: the corrective block appended to the caller's original
\* instruction; the block appended without the blank line; the prefix override lost;
\* retryCount passed on without the increment
RetryOptionsFromOriginal(error) ==
    [llmAdapter |-> frame.options.llmAdapter,
     schema |-> frame.options.schema,
     retryCount |-> <<frame.retryCount + 1>>,
     maxRetries |-> <<frame.finalMaxRetries>>,
     prompt |-> calls[1].frame.options.prompt \o <<"\n\n">> \o RepairPromptText(error),
     prefix |-> frame.options.prefix,
     jsonSchemaIndent |-> frame.options.jsonSchemaIndent]

RetryOptionsNoSeparator(error) ==
    [llmAdapter |-> frame.options.llmAdapter,
     schema |-> frame.options.schema,
     retryCount |-> <<frame.retryCount + 1>>,
     maxRetries |-> <<frame.finalMaxRetries>>,
     prompt |-> frame.options.prompt \o RepairPromptText(error),
     prefix |-> frame.options.prefix,
     jsonSchemaIndent |-> frame.options.jsonSchemaIndent]

RetryOptionsDropsPrefix(error) ==
    [llmAdapter |-> frame.options.llmAdapter,
     schema |-> frame.options.schema,
     retryCount |-> <<frame.retryCount + 1>>,
     maxRetries |-> <<frame.finalMaxRetries>>,
     prompt |-> frame.options.prompt \o <<"\n\n">> \o RepairPromptText(error),
     prefix |-> <<>>,
     jsonSchemaIndent |-> frame.options.jsonSchemaIndent]

\* mutant of RetryOptions: the count of retries is kept on the instance, shared by
\* the calls in progress
RetryOptionsSharedCounter(error) ==
    [llmAdapter |-> frame.options.llmAdapter,
     schema |-> frame.options.schema,
     retryCount |-> <<(IF other # <<>> /\ other[1].frame # <<>>
                          /\ other[1].frame.retryCount > frame.retryCount
                       THEN other[1].frame.retryCount
                       ELSE frame.retryCount) + 1>>,
     maxRetries |-> <<frame.finalMaxRetries>>,
     prompt |-> frame.options.prompt \o <<"\n\n">> \o RepairPromptText(error),
     prefix |-> frame.options.prefix,
     jsonSchemaIndent |-> frame.options.jsonSchemaIndent]

RetryOptionsKeepsCount(error) ==
    [llmAdapter |-> frame.options.llmAdapter,
     schema |-> frame.options.schema,
     retryCount |-> <<frame.retryCount>>,
     maxRetries |-> <<frame.finalMaxRetries>>,
     prompt |-> frame.options.prompt \o <<"\n\n">> \o RepairPromptText(error),
     prefix |-> frame.options.prefix,
     jsonSchemaIndent |-> frame.options.jsonSchemaIndent]

\* the options of the recursive call: ...rest, schema, prompt, retryCount, maxRetries
RetryOptions(error) ==
    [llmAdapter |-> frame.options.llmAdapter,
     schema |-> frame.options.schema,
     retryCount |-> <<frame.retryCount + 1>>,
     maxRetries |-> <<frame.finalMaxRetries>>,
     prompt |-> frame.options.prompt \o <<"\n\n">> \o RepairPromptText(error),
     prefix |-> frame.options.prefix,
     jsonSchemaIndent |-> frame.options.jsonSchemaIndent]

\* the entries logged on entry: "Starting JSON generation" in generateJson and
\* "Generating text response..." in generateTextResponse
InvokeLogs(options) ==
    <<LogEntry("info", "Starting JSON generation",
               [retryCount |-> Coalesce(options.retryCount, 0),
                maxRetries |-> ResolveMaxRetries(options.maxRetries)]),
      LogEntry("debug", "Generating text response...",
               [instruction |-> Slice(options.prompt, InstructionSliceLength)])>>

\* the entries logged in the catch branch, and by the recursive call it makes
CatchLogs(error) ==
    IF ShouldRetry(frame.retryCount, frame.finalMaxRetries)
    THEN <<LogEntry("warn", "Generation failed, retrying...",
                    [attempt |-> frame.retryCount + 1,
                     maxRetries |-> frame.finalMaxRetries,
                     error |-> ErrorMessage(error)])>> \o InvokeLogs(RetryOptions(error))
    ELSE <<LogEntry("error", "Max retries reached or unrecoverable error",
                    [error |-> error])>>

\* mutant of Invoke: the prompt is built from the instruction as sliced for the log
InvokeSlicedInstruction(options) ==
    LET entered == [options |-> options,
                    retryCount |-> Coalesce(options.retryCount, 0),
                    finalMaxRetries |-> ResolveMaxRetries(options.maxRetries)]
    IN  /\ frame' = entered
        /\ calls' = Append(calls,
                [frame |-> entered,
                 jsonPrompt |-> buildPrompt(options.prefix,
                                            Slice(options.prompt, InstructionSliceLength),
                                            options.jsonSchemaIndent)])
        /\ pc' = "awaiting"

\* mutant of Invoke: the adapter is invoked twice for one attempt (a hedged request)
InvokeHedged(options) ==
    LET entered == [options |-> options,
                    retryCount |-> Coalesce(options.retryCount, 0),
                    finalMaxRetries |-> ResolveMaxRetries(options.maxRetries)]
        call == [frame |-> entered,
                 jsonPrompt |-> buildPrompt(options.prefix, options.prompt,
                                            options.jsonSchemaIndent)]
    IN  /\ frame' = entered
        /\ calls' = calls \o <<call, call>>
        /\ pc' = "awaiting"

\* generateJson up to its await: the parameters' defaults, finalMaxRetries, the
\* prompt, and the invocation of llmAdapter
Invoke(options) ==
    LET entered == [options |-> options,
                    retryCount |-> Coalesce(options.retryCount, 0),
                    finalMaxRetries |-> ResolveMaxRetries(options.maxRetries)]
    IN  /\ frame' = entered
        /\ calls' = Append(calls,
                [frame |-> entered,
                 jsonPrompt |-> buildPrompt(options.prefix, options.prompt,
                                            options.jsonSchemaIndent)])
        /\ pc' = "awaiting"

\* mutant of Catch: when the retries are used up the failure is swallowed and the call
\* resolves with an empty object
CatchSwallows(error) ==
    IF ShouldRetry(frame.retryCount, frame.finalMaxRetries)
    THEN /\ Invoke(RetryOptions(error))
         /\ UNCHANGED <<result, thrown>>
    ELSE /\ pc' = "resolved"
         /\ result' = <<MakeResult(<<>>, frame.retryCount, FALSE)>>
         /\ UNCHANGED <<frame, calls, thrown>>

\* the catch branch
Catch(error) ==
    IF ShouldRetry(frame.retryCount, frame.finalMaxRetries)
    THEN /\ Invoke(RetryOptions(error))
         /\ UNCHANGED <<result, thrown>>
    ELSE /\ pc' = "rejected"
         /\ thrown' = <<Rethrow(error)>>
         /\ UNCHANGED <<frame, calls, result>>

\* a caller calls lsof.generateJson(options), options being one of optionsSet
GenerateJsonWith(optionsSet) ==
    /\ pc = "idle"
    /\ \E options \in optionsSet :
          /\ Invoke(options)
          /\ logs' = logs \o Written(InvokeLogs(options))
    /\ UNCHANGED <<defaultMaxRetries, repairPrompt, lsofOptions, logger, attempts, result,
                   thrown, current, other>>

GenerateJson == GenerateJsonWith(GenerateJsonOptionsSet)

\* the adapter's promise resolves with rawResponse, one of responses: parseJson, then
\* return or catch
AdapterResolvesWith(responses) ==
    /\ pc = "awaiting"
    /\ \E rawResponse \in responses :
          LET id == Len(attempts) + 1
              parsed == parseJson(rawResponse, id)
          IN  /\ attempts' = Append(attempts,
                      [settled |-> "resolved", value |-> rawResponse,
                       ok |-> parsed.ok,
                       error |-> IF parsed.ok THEN <<>> ELSE <<parsed.error>>,
                       repairInvoked |-> parsed.repairInvoked])
              /\ IF parsed.ok
                 THEN /\ pc' = "resolved"
                      /\ result' = <<MakeResult(parsed.data, frame.retryCount,
                                                parsed.wasRepaired)>>
                      /\ UNCHANGED <<frame, calls, thrown>>
                 ELSE Catch(parsed.error)
              /\ logs' = logs \o Written(
                    <<LogEntry("debug", "Raw LLM response received",
                               [rawResponse |-> rawResponse])>> \o
                    parseJsonLogs(rawResponse) \o
                    IF parsed.ok
                    THEN <<LogEntry("info", "JSON generation completed successfully", <<>>)>>
                    ELSE CatchLogs(parsed.error))
    /\ UNCHANGED <<defaultMaxRetries, repairPrompt, lsofOptions, logger, current, other>>

AdapterResolves == AdapterResolvesWith(RawResponses)

\* mutant of AdapterRejects: the adapter's own error is not retried but rethrown at once
AdapterRejectsNoRetry ==
    /\ pc = "awaiting"
    /\ \E message \in AdapterFailures :
          LET error == AdapterError(message, Len(attempts) + 1)
          IN  /\ attempts' = Append(attempts,
                      [settled |-> "rejected", value |-> message, ok |-> FALSE,
                       error |-> <<error>>, repairInvoked |-> FALSE])
              /\ pc' = "rejected"
              /\ thrown' = <<error>>
              /\ logs' = logs \o Written(<<LogEntry("error",
                              "Max retries reached or unrecoverable error",
                              [error |-> error])>>)
              /\ UNCHANGED <<frame, calls, result>>
    /\ UNCHANGED <<defaultMaxRetries, repairPrompt, lsofOptions, logger, current, other>>

\* the adapter's promise rejects (or the adapter throws): catch
AdapterRejects ==
    /\ pc = "awaiting"
    /\ \E message \in AdapterFailures :
          LET error == AdapterError(message, Len(attempts) + 1)
          IN  /\ attempts' = Append(attempts,
                      [settled |-> "rejected", value |-> message, ok |-> FALSE,
                       error |-> <<error>>, repairInvoked |-> FALSE])
              /\ Catch(error)
              /\ logs' = logs \o Written(CatchLogs(error))
    /\ UNCHANGED <<defaultMaxRetries, repairPrompt, lsofOptions, logger, current, other>>

Next == GenerateJson \/ AdapterResolves \/ AdapterRejects

Spec == Init /\ [][Next]_vars

\* every adapter invocation eventually settles: the promise awaited at
\* generateTextResponse resolves or rejects
AdapterSettles == AdapterResolves \/ AdapterRejects

SpecFair == Init /\ [][Next]_vars /\ WF_vars(AdapterSettles)

\* the same program on instances constructed with any logging option
SpecLogging == InitLogging /\ [][Next]_vars

----------------------------------------------------------------------------
\* Two generateJson calls in progress on one instance.  The event loop runs one
\* continuation at a time, so the calls interleave at their awaits: pc .. thrown are
\* the state of the call that runs next, other holds the state of the other one.

\* the instruction of each of the two calls
ConcurrentPrompt(id) == IF id = 1 THEN <<"Generate value">> ELSE <<"Generate another value">>

ConcurrentOptionsSet(id) ==
    [llmAdapter : {"llmAdapter"},
     schema : {"z.object({ value: z.number() })"},
     retryCount : {<<>>},
     maxRetries : {<<>>, <<MaxRetriesBound>>},
     prompt : {ConcurrentPrompt(id)},
     prefix : {<<>>},
     jsonSchemaIndent : {<<>>}]

ConcurrentResponses == {RawValid, RawViolating, RawGarbage}

ConcurrentLsofOptionsSet ==
    [defaultMaxRetries : {<<1>>},
     repairPrompt : {<<>>},
     logging : {<<>>, <<[enabled |-> <<TRUE>>, level |-> <<"error">>]>>}]

InitConcurrent ==
    /\ \E options \in ConcurrentLsofOptionsSet :
          /\ lsofOptions = options
          /\ defaultMaxRetries = Constructor(options).defaultMaxRetries
          /\ repairPrompt = Constructor(options).repairPrompt
          /\ logger = Constructor(options).logger
    /\ pc = "idle"
    /\ frame = <<>>
    /\ calls = <<>>
    /\ attempts = <<>>
    /\ result = <<>>
    /\ thrown = <<>>
    /\ logs = <<>>
    /\ current = 1
    /\ other = <<[id |-> 2, pc |-> "idle", frame |-> <<>>, calls |-> <<>>,
                  attempts |-> <<>>, result |-> <<>>, thrown |-> <<>>]>>

GenerateJsonConcurrent == GenerateJsonWith(ConcurrentOptionsSet(current))

AdapterResolvesConcurrent == AdapterResolvesWith(ConcurrentResponses)

\* the running call is suspended at its await (or has ended, or has not been made
\* yet) and the other call, which can still take a step, is the one to run next
Switch ==
    /\ other # <<>>
    /\ other[1].pc \in {"idle", "awaiting"}
    /\ other' = <<[id |-> current, pc |-> pc, frame |-> frame, calls |-> calls,
                   attempts |-> attempts, result |-> result, thrown |-> thrown]>>
    /\ current' = other[1].id
    /\ pc' = other[1].pc
    /\ frame' = other[1].frame
    /\ calls' = other[1].calls
    /\ attempts' = other[1].attempts
    /\ result' = other[1].result
    /\ thrown' = other[1].thrown
    /\ UNCHANGED <<defaultMaxRetries, repairPrompt, lsofOptions, logger, logs>>

NextConcurrent ==
    GenerateJsonConcurrent \/ AdapterResolvesConcurrent \/ AdapterRejects \/ Switch

SpecConcurrent == InitConcurrent /\ [][NextConcurrent]_vars

----------------------------------------------------------------------------
\* Vocabulary of the properties

Started == calls # <<>>

\* the options the caller passed, and the bound and count the first invocation resolved
StartOptions == calls[1].frame.options

StartCount == calls[1].frame.retryCount

Bound == calls[1].frame.finalMaxRetries

\* the call was started without a retryCount of earlier attempts (omitted, or 0)
StartedFresh == Started /\ StartCount = 0

LastAttempt == attempts[Len(attempts)]

IsSchemaViolation(a) == ~a.ok /\ a.error[1].name = "ZodError"

FailedAttempts == {i \in 1..Len(attempts) : ~attempts[i].ok}

ContainsSeq(text, sub) ==
    \E i \in 1..(Len(text) - Len(sub) + 1) : SubSeq(text, i, i + Len(sub) - 1) = sub

\* the repair-prompt function the instance uses is the default one
UsesDefaultRepairPromptFn == Coalesce(repairPrompt.fn, "defaultRepairPromptFn") = "defaultRepairPromptFn"

\* attempts 0..N-1 violated the schema, N <= maxRetries, and the call was started fresh
ViolationsThenConforming ==
    /\ StartedFresh
    /\ attempts # <<>>
    /\ LastAttempt.ok
    /\ \A i \in 1..(Len(attempts) - 1) : IsSchemaViolation(attempts[i])
    /\ Len(attempts) - 1 <= Bound

OnlyViolationsSoFar ==
    /\ StartedFresh
    /\ \A i \in 1..Len(attempts) : IsSchemaViolation(attempts[i])
    /\ Len(attempts) <= Bound

\* what C1 says in both its readings: the call is still attempting while only schema
\* violations within the bound have come back, and resolves with retryCount = N after
\* exactly N + 1 adapter invocations when attempt N conforms
RetryCountsAndInvocations ==
    /\ OnlyViolationsSoFar => pc = "awaiting" /\ Len(calls) = Len(attempts) + 1
    /\ ViolationsThenConforming =>
          /\ pc = "resolved"
          /\ result[1].metadata.retryCount = Len(attempts) - 1
          /\ Len(calls) = Len(attempts)

----------------------------------------------------------------------------
\* C1 as stated: when attempts 0..N-1 violate the schema and attempt N conforms
\* (N <= maxRetries, retryCount started at 0), the call resolves with retryCount = N
\* after exactly N+1 adapter invocations, and every prompt after the first contains
\* "Error details:".  Refuted by an instance configured with a repairPrompt.fn of its own.
C1_MarkerInEveryLaterPrompt ==
    /\ RetryCountsAndInvocations
    /\ ViolationsThenConforming =>
          \A i \in 2..Len(calls) : Contains(calls[i].jsonPrompt, "Error details:")

\* C1 amended: as above, but every prompt after the first contains the corrective text
\* that the instance's repair-prompt function built from the previous attempt's error
\* (less the trailing white space that buildPrompt trims); that text contains
\* "Error details:" when the function is the default one.
C1_CorrectiveTextInEveryLaterPrompt ==
    /\ RetryCountsAndInvocations
    /\ ViolationsThenConforming =>
          \A i \in 2..Len(calls) :
             /\ ContainsSeq(calls[i].jsonPrompt,
                            TrimEnd(<<"\n\n">> \o RepairPromptText(attempts[i - 1].error[1])))
             /\ UsesDefaultRepairPromptFn =>
                   Contains(calls[i].jsonPrompt, "Error details:")

C1_Witness ==
    /\ ViolationsThenConforming
    /\ UsesDefaultRepairPromptFn
    /\ Len(attempts) = 3
    /\ pc = "resolved"

----------------------------------------------------------------------------
\* C2: when no attempt of a call started at retryCount 0 conforms, the call rejects and
\* the adapter has been invoked exactly maxRetries + 1 times; a call never invokes the
\* adapter more often, and never rejects after fewer invocations.
C2_RejectsAfterBoundPlusOneInvocations ==
    StartedFresh =>
       /\ Len(calls) <= Bound + 1
       /\ pc = "rejected" => Len(calls) = Bound + 1 /\ Len(attempts) = Bound + 1
       /\ (Len(attempts) = Bound + 1 /\ FailedAttempts = 1..Len(attempts)) =>
             pc = "rejected" /\ thrown # <<>>

C2_Witness ==
    /\ StartedFresh
    /\ pc = "rejected"
    /\ Bound = 2
    /\ Len(calls) = 3
    /\ \A i \in 1..3 : IsSchemaViolation(attempts[i])

----------------------------------------------------------------------------
\* C3: a call that rejects, rejects with the very error object the last attempt raised
\* (schema violation, malformed output or the adapter's error): not a wrapper, and not
\* the error of an earlier attempt.
C3_RejectsWithLastAttemptsError ==
    pc = "rejected" =>
       /\ thrown = LastAttempt.error
       /\ thrown[1].id = Len(attempts)
       /\ \A i \in 1..(Len(attempts) - 1) : thrown # attempts[i].error

C3_Witness ==
    /\ pc = "rejected"
    /\ Len(attempts) = 3
    /\ attempts[1].error[1].name = "ZodError"
    /\ attempts[2].error[1].name = "Error"
    /\ thrown[1].name = "LsofJsonParsingError"

----------------------------------------------------------------------------
\* More vocabulary

\* the text has a parsed candidate: directly, or after syntactic repair
DirectlyParseable(text) == JsonParse(text).ok

Repairable(text) ==
    ~JsonParse(text).ok /\ JsonRepair(text).ok /\ JsonParse(JsonRepair(text).text).ok

ParsedCandidate(text) ==
    IF DirectlyParseable(text) THEN JsonParse(text).value
    ELSE JsonParse(JsonRepair(text).text).value

\* the retry bound the caller and the instance configured: the call's explicit
\* maxRetries, else the constructor's defaultMaxRetries, else 3
ConfiguredBound ==
    IF StartOptions.maxRetries # <<>> THEN StartOptions.maxRetries[1]
    ELSE IF lsofOptions.defaultMaxRetries # <<>> THEN lsofOptions.defaultMaxRetries[1]
    ELSE 3

----------------------------------------------------------------------------
\* C4: no partial success: a call that resolved returns data the schema's validator
\* accepted for the response of that same (last) attempt; a response that failed
\* parsing or validation is never returned; a call never both returns and rejects.
C4_NoPartialSuccess ==
    /\ (result # <<>>) <=> (pc = "resolved")
    /\ (thrown # <<>>) <=> (pc = "rejected")
    /\ pc = "resolved" =>
          /\ LastAttempt.settled = "resolved"
          /\ DirectlyParseable(LastAttempt.value) \/ Repairable(LastAttempt.value)
          /\ SchemaParse(ParsedCandidate(LastAttempt.value)).ok
          /\ result[1].data = SchemaParse(ParsedCandidate(LastAttempt.value)).data
          /\ \A i \in 1..(Len(attempts) - 1) : ~attempts[i].ok

C4_Witness ==
    /\ pc = "resolved"
    /\ Len(attempts) = 3
    /\ attempts[1].value = RawViolating
    /\ attempts[2].value = RawGarbage
    /\ LastAttempt.value = RawExtraKey
    /\ result[1].data = [value |-> <<"number", "10">>]

----------------------------------------------------------------------------
\* C5: a first attempt (retryCount 0) whose response parses directly and matches the
\* schema resolves the call after exactly one adapter invocation, with retryCount 0,
\* wasRepaired false and the validated parsed response as data.
C5_FirstAttemptValid ==
    (/\ StartedFresh
     /\ attempts # <<>>
     /\ attempts[1].settled = "resolved"
     /\ DirectlyParseable(attempts[1].value)
     /\ SchemaParse(JsonParse(attempts[1].value).value).ok)
    => /\ pc = "resolved"
       /\ Len(calls) = 1
       /\ Len(attempts) = 1
       /\ result[1].metadata = [retryCount |-> 0, wasRepaired |-> FALSE]
       /\ result[1].data = SchemaParse(JsonParse(attempts[1].value).value).data

C5_Witness ==
    /\ StartedFresh
    /\ pc = "resolved"
    /\ attempts[1].value = RawValid
    /\ result[1] = [data |-> [value |-> <<"number", "10">>],
                    metadata |-> [retryCount |-> 0, wasRepaired |-> FALSE]]

----------------------------------------------------------------------------
\* C6: a first attempt (retryCount 0) whose response fails the direct parse, is
\* repairable and matches the schema once repaired resolves the call without a retry,
\* with wasRepaired true and retryCount 0; and jsonrepair is only ever invoked on a
\* response whose direct parse failed.
C6_FirstAttemptRepaired ==
    /\ (/\ StartedFresh
        /\ attempts # <<>>
        /\ attempts[1].settled = "resolved"
        /\ Repairable(attempts[1].value)
        /\ SchemaParse(ParsedCandidate(attempts[1].value)).ok)
       => /\ pc = "resolved"
          /\ Len(calls) = 1
          /\ Len(attempts) = 1
          /\ result[1].metadata = [retryCount |-> 0, wasRepaired |-> TRUE]
    /\ \A i \in 1..Len(attempts) :
          attempts[i].repairInvoked =>
             attempts[i].settled = "resolved" /\ ~DirectlyParseable(attempts[i].value)

C6_Witness ==
    /\ StartedFresh
    /\ pc = "resolved"
    /\ Len(calls) = 1
    /\ attempts[1].value = RawRepairable
    /\ attempts[1].repairInvoked
    /\ result[1].metadata.wasRepaired

----------------------------------------------------------------------------
----------------------------------------------------------------------------
\* C8: in every result, metadata.wasRepaired is true exactly when the accepted
\* attempt's response needed syntactic repair; repairs of earlier, discarded attempts
\* do not count.
C8_WasRepairedIsOfAcceptedAttempt ==
    pc = "resolved" =>
       /\ result[1].metadata.wasRepaired = ~DirectlyParseable(LastAttempt.value)
       /\ result[1].metadata.wasRepaired = LastAttempt.repairInvoked

C8_Witness ==
    /\ pc = "resolved"
    /\ Len(attempts) = 2
    /\ attempts[1].value = RawRepairableViolating
    /\ attempts[1].repairInvoked
    /\ LastAttempt.value = RawValid
    /\ ~result[1].metadata.wasRepaired

----------------------------------------------------------------------------
\* C9: with a retry bound of 0 (explicit maxRetries 0, or none and a default of 0) one
\* attempt is made: a failure of it, of whatever kind, rejects the call at once with
\* that failure, the adapter is invoked exactly once and no corrective prompt is built.
C9_BoundZeroIsOneAttempt ==
    (Started /\ ConfiguredBound = 0) =>
       /\ Len(calls) = 1
       /\ calls[1].frame.options.prompt = StartOptions.prompt
       /\ frame.options.prompt = StartOptions.prompt
       /\ attempts # <<>> =>
             /\ Len(attempts) = 1
             /\ pc = IF attempts[1].ok THEN "resolved" ELSE "rejected"
             /\ ~attempts[1].ok => thrown = attempts[1].error

C9_Witness ==
    /\ Started
    /\ StartOptions.maxRetries = <<>>
    /\ lsofOptions.defaultMaxRetries = <<0>>
    /\ pc = "rejected"
    /\ Len(calls) = 1
    /\ thrown[1].name = "Error"

----------------------------------------------------------------------------
\* C10: the retry bound of a call is its explicit maxRetries when given (an explicit 0
\* included), else the instance's configured defaultMaxRetries, else 3; and every later
\* attempt of the call uses the bound the first attempt resolved.
C10_BoundResolution ==
    Started =>
       /\ Bound = ConfiguredBound
       /\ \A i \in 1..Len(calls) : calls[i].frame.finalMaxRetries = Bound
       /\ frame.finalMaxRetries = Bound

C10_WitnessHardDefault ==
    /\ Started
    /\ StartOptions.maxRetries = <<>>
    /\ lsofOptions.defaultMaxRetries = <<>>
    /\ Len(calls) = 4
    /\ calls[4].frame.finalMaxRetries = 3

----------------------------------------------------------------------------
\* C11: a failure raised by the adapter itself counts like any other failed attempt:
\* while retryCount < maxRetries it consumes one retry and the next attempt is made
\* with a corrective prompt built from its message; once retries are exhausted the call
\* rejects with the adapter's error object itself.  Every failed attempt, of whatever
\* kind, is retried exactly when retryCount < maxRetries.
C11_AdapterFailureIsAFailedAttempt ==
    \A i \in 1..Len(attempts) :
       ~attempts[i].ok =>
          IF calls[i].frame.retryCount < calls[i].frame.finalMaxRetries
          THEN /\ Len(calls) >= i + 1
               /\ calls[i + 1].frame.retryCount = calls[i].frame.retryCount + 1
               /\ attempts[i].settled = "rejected" =>
                     calls[i + 1].frame.options.prompt =
                        calls[i].frame.options.prompt \o <<"\n\n">> \o
                        ApplyRepairPromptFn(
                           Coalesce(repairPrompt.fn, "defaultRepairPromptFn"),
                           Coalesce(repairPrompt.prefix, defaultRepairPromptPrefix),
                           attempts[i].value)
          ELSE /\ i = Len(attempts)
               /\ Len(calls) = i
               /\ pc = "rejected"
               /\ attempts[i].settled = "rejected" =>
                     thrown = <<AdapterError(attempts[i].value, i)>>

C11_Witness ==
    /\ pc = "rejected"
    /\ Len(attempts) = 3
    /\ attempts[1].settled = "rejected"
    /\ attempts[2].settled = "rejected"
    /\ attempts[3].settled = "rejected"
    /\ calls[3].frame.retryCount = 2
    /\ thrown = <<AdapterError("socket hang up", 3)>>

----------------------------------------------------------------------------
\* Vocabulary of the corrective prompts

\* the instruction (the prompt option) that the k-th invocation of the call was given
Instruction(k) == calls[k].frame.options.prompt

\* the text of a failed attempt's failure: the serialized violation tree for a schema
\* violation, else the failure's message
FailureText(a) ==
    IF a.settled = "rejected" THEN a.value
    ELSE IF DirectlyParseable(a.value) \/ Repairable(a.value)
    THEN TreeifyString(SchemaParse(ParsedCandidate(a.value)).issues)
    ELSE JsonParse(a.value).message

\* the corrective suffix the instance's repair-prompt function builds for it
CorrectiveSuffix(a) ==
    ApplyRepairPromptFn(Coalesce(repairPrompt.fn, "defaultRepairPromptFn"),
                        Coalesce(repairPrompt.prefix, defaultRepairPromptPrefix),
                        FailureText(a))

\* the corrective suffixes of attempts 1..k, each after a blank line, in order
RECURSIVE CorrectiveBlocks(_)
CorrectiveBlocks(k) ==
    IF k = 0 THEN <<>>
    ELSE CorrectiveBlocks(k - 1) \o <<"\n\n">> \o CorrectiveSuffix(attempts[k])

----------------------------------------------------------------------------
\* C14: on each retry the instruction of attempt k+1 is the instruction of attempt k
\* followed by "\n\n" and the corrective suffix of attempt k's failure, so the corrective
\* text accumulates: the prompt of attempt k+1 contains the suffixes of all attempts
\* up to k, in order.
C14_CorrectiveTextAccumulates ==
    \A k \in 1..(Len(calls) - 1) :
       /\ Instruction(k + 1) =
             Instruction(k) \o <<"\n\n">> \o CorrectiveSuffix(attempts[k])
       /\ ContainsSeq(calls[k + 1].jsonPrompt, TrimEnd(CorrectiveBlocks(k)))
       /\ \A j \in 1..k :
             ContainsSeq(calls[k + 1].jsonPrompt, TrimEnd(CorrectiveSuffix(attempts[j])))

C14_Witness ==
    /\ Len(calls) = 3
    /\ IsSchemaViolation(attempts[1])
    /\ attempts[2].value = RawGarbage
    /\ ContainsSeq(calls[3].jsonPrompt,
                   CorrectiveSuffix(attempts[1]) \o <<"\n\n">> \o CorrectiveSuffix(attempts[2]))

----------------------------------------------------------------------------
\* C15 as stated: on every retry the corrective block is appended to the caller's
\* original instruction: the retry's instruction is the original instruction plus the
\* latest error's corrective suffix only.  Refuted by the second retry of a call.
C15_LatestErrorOnly ==
    \A k \in 2..Len(calls) :
       Instruction(k) = Instruction(1) \o <<"\n\n">> \o CorrectiveSuffix(attempts[k - 1])

\* C15 amended: only the first retry's instruction is the original instruction plus the
\* latest error's corrective suffix alone; every later retry appends its block to the
\* previous, already augmented instruction, so the instruction of a retry is the
\* original instruction followed by the corrective suffixes of all attempts before it.
C15_OriginalThenEveryEarlierSuffix ==
    \A k \in 2..Len(calls) :
       /\ Instruction(k) = Instruction(1) \o CorrectiveBlocks(k - 1)
       /\ Instruction(1) = StartOptions.prompt
       /\ k = 2 => Instruction(k) =
                      Instruction(1) \o <<"\n\n">> \o CorrectiveSuffix(attempts[1])
       /\ k > 2 => Len(Instruction(k)) >
                      Len(Instruction(1) \o <<"\n\n">> \o CorrectiveSuffix(attempts[k - 1]))

C15_Witness ==
    /\ Len(calls) = 3
    /\ attempts[1].settled = "rejected"
    /\ IsSchemaViolation(attempts[2])
    /\ Instruction(3) = StartOptions.prompt
                          \o <<"\n\n">> \o CorrectiveSuffix(attempts[1])
                          \o <<"\n\n">> \o CorrectiveSuffix(attempts[2])

----------------------------------------------------------------------------
\* C16: the attempts of a call are strictly sequential: at most one adapter invocation
\* is in flight at any time (exactly one while the call awaits, none otherwise), and
\* an invocation starts only in a step after which every earlier invocation has
\* settled and been parsed and validated.
InFlight == Len(calls) - Len(attempts)

C16_AttemptsAreSequential ==
    /\ [](InFlight = IF pc = "awaiting" THEN 1 ELSE 0)
    /\ [][Len(calls') > Len(calls) =>
             /\ Len(calls') = Len(calls) + 1
             /\ Len(attempts') = Len(calls)
             /\ Len(calls) > 0 => ~attempts'[Len(calls)].ok]_vars

C16_Witness ==
    /\ pc = "awaiting"
    /\ Len(calls) = 3
    /\ Len(attempts) = 2
    /\ attempts[1].settled = "resolved"
    /\ attempts[2].settled = "resolved"

----------------------------------------------------------------------------
\* C17: an attempt whose response fails both JSON.parse and jsonrepair-then-parse fails
\* with an LsofJsonParsingError carrying the message of the first, pre-repair parse
\* failure (not the repair's); it is never the accepted attempt of a resolved call.
FailsParseAndRepair(text) ==
    /\ ~JsonParse(text).ok
    /\ ~(JsonRepair(text).ok /\ JsonParse(JsonRepair(text).text).ok)

C17_UnrepairableIsParsingError ==
    \A i \in 1..Len(attempts) :
       (attempts[i].settled = "resolved" /\ FailsParseAndRepair(attempts[i].value)) =>
          /\ ~attempts[i].ok
          /\ attempts[i].repairInvoked
          /\ attempts[i].error =
                <<LsofJsonParsingError(JsonParse(attempts[i].value).message, i)>>
          /\ ~JsonRepair(attempts[i].value).ok =>
                attempts[i].error[1].message # JsonRepair(attempts[i].value).message
          /\ i = Len(attempts) =>
                /\ pc # "resolved"
                /\ result = <<>>
                /\ pc = "rejected" => thrown = attempts[i].error

C17_Witness ==
    /\ pc = "rejected"
    /\ LastAttempt.value = RawGarbage
    /\ thrown # <<>>
    /\ thrown[1].name = "LsofJsonParsingError"
    /\ thrown[1].message = "Unexpected token '}' is not valid JSON"

----------------------------------------------------------------------------
\* C18: resolved and rejected are terminal (no further adapter invocation, prompt or
\* change of outcome); a settled attempt whose value validated resolves the call; a
\* failure with retryCount >= the bound rejects it; a failure with retryCount < the
\* bound leads only to a new attempt with retryCount + 1 and the same bound.
C18_Transitions ==
    [][/\ pc \notin {"resolved", "rejected"}
       /\ pc = "awaiting" =>
             /\ Len(attempts') = Len(attempts) + 1
             /\ IF attempts'[Len(attempts')].ok
                THEN /\ pc' = "resolved"
                     /\ calls' = calls
                     /\ result' # <<>>
                     /\ thrown' = <<>>
                ELSE IF frame.retryCount < frame.finalMaxRetries
                THEN /\ pc' = "awaiting"
                     /\ Len(calls') = Len(calls) + 1
                     /\ frame'.retryCount = frame.retryCount + 1
                     /\ frame'.finalMaxRetries = frame.finalMaxRetries
                     /\ result' = <<>>
                     /\ thrown' = <<>>
                ELSE /\ pc' = "rejected"
                     /\ calls' = calls
                     /\ result' = <<>>
                     /\ thrown' = attempts'[Len(attempts')].error]_vars

C18_Witness ==
    /\ pc = "rejected"
    /\ Len(calls) = 2
    /\ calls[1].frame.retryCount = 1
    /\ frame.retryCount = 2
    /\ frame.finalMaxRetries = 2

----------------------------------------------------------------------------
\* C19: a retry changes only the instruction (the previous one, extended) and
\* retryCount (plus exactly 1): adapter, schema, prefix override, schema indent and
\* resolved maxRetries of attempt k+1 are those of attempt k.
IsProperPrefix(s, t) == Len(s) < Len(t) /\ SubSeq(t, 1, Len(s)) = s

C19_RetryChangesOnlyInstructionAndCount ==
    \A k \in 1..(Len(calls) - 1) :
       LET a == calls[k].frame
           b == calls[k + 1].frame
       IN  /\ b.options.llmAdapter = a.options.llmAdapter
           /\ b.options.schema = a.options.schema
           /\ b.options.prefix = a.options.prefix
           /\ b.options.jsonSchemaIndent = a.options.jsonSchemaIndent
           /\ b.finalMaxRetries = a.finalMaxRetries
           /\ b.options.maxRetries = <<a.finalMaxRetries>>
           /\ DOMAIN b.options = DOMAIN a.options
           /\ b.retryCount = a.retryCount + 1
           /\ b.options.retryCount = <<a.retryCount + 1>>
           /\ IsProperPrefix(a.options.prompt, b.options.prompt)

C19_Witness ==
    /\ Len(calls) = 3
    /\ calls[1].frame.options.prefix = <<"Answer in JSON:">>
    /\ calls[1].frame.options.jsonSchemaIndent = <<0>>
    /\ calls[1].frame.options.maxRetries = <<>>
    /\ calls[3].frame.options.prefix = <<"Answer in JSON:">>
    /\ calls[3].frame.options.jsonSchemaIndent = <<0>>

----------------------------------------------------------------------------
\* C13: provided every adapter invocation eventually settles, every generateJson call
\* (its bound being finite) eventually resolves or rejects: each retry strictly
\* decreases the retries left, finalMaxRetries - retryCount, which never goes below 0
\* on a retry, so the call cannot retry forever.
RetriesLeft(f) == f.finalMaxRetries - f.retryCount

C13_Terminates ==
    /\ Started ~> (pc \in {"resolved", "rejected"})
    /\ [][(pc = "awaiting" /\ pc' = "awaiting") =>
             /\ RetriesLeft(frame') < RetriesLeft(frame)
             /\ RetriesLeft(frame') >= 0]_vars

C13_Witness ==
    /\ pc = "resolved"
    /\ StartOptions.maxRetries = <<MaxRetriesBound>>
    /\ Len(attempts) = MaxRetriesBound + 1
    /\ RetriesLeft(frame) = 0
    /\ attempts[1].settled = "rejected"

----------------------------------------------------------------------------
\* The version of the program without logging (index.ts:225-388), as a function of
\* the instance's options, the call's options and how the adapter's invocations settle

NoLogHardDefaultMaxRetries == 3

NoLogDefaultJsonSchemaIndent == 2

ConstructorNoLog(options) ==
    [defaultMaxRetries |-> Coalesce(options.defaultMaxRetries, NoLogHardDefaultMaxRetries),
     repairPrompt |-> Coalesce(options.repairPrompt,
                               [prefix |-> <<defaultRepairPromptPrefix>>,
                                fn |-> <<"defaultRepairPromptFn">>])]

buildPromptNoLog(prefixOpt, instruction, jsonSchemaIndentOpt) ==
    Trim(<<Coalesce(prefixOpt, defaultPromptPrefix), "\n",
           JsonSchemaString(Coalesce(jsonSchemaIndentOpt, NoLogDefaultJsonSchemaIndent)),
           "\n", "Instruction:", "\n">> \o instruction)

parseJsonNoLog(stringData, id) ==
    LET first == JsonParse(stringData) IN
    IF first.ok
    THEN LET v == SchemaParse(first.value) IN
         IF v.ok THEN [ok |-> TRUE, data |-> v.data, wasRepaired |-> FALSE]
         ELSE [ok |-> FALSE, error |-> ZodError(v.issues, id)]
    ELSE LET repaired == JsonRepair(stringData) IN
         IF repaired.ok /\ JsonParse(repaired.text).ok
         THEN LET v == SchemaParse(JsonParse(repaired.text).value) IN
              IF v.ok THEN [ok |-> TRUE, data |-> v.data, wasRepaired |-> TRUE]
              ELSE [ok |-> FALSE, error |-> ZodError(v.issues, id)]
         ELSE [ok |-> FALSE, error |-> LsofJsonParsingError(first.message, id)]

\* generateJson: prompts are the prompts of the adapter invocations made before this
\* one; the run stops awaiting when settles holds no settlement for its invocation
RECURSIVE generateJsonNoLog(_, _, _, _)
generateJsonNoLog(self, options, settles, prompts) ==
    LET retryCount == Coalesce(options.retryCount, 0)
        finalMaxRetries == Coalesce(options.maxRetries, self.defaultMaxRetries)
        sent == Append(prompts, buildPromptNoLog(options.prefix, options.prompt,
                                                 options.jsonSchemaIndent))
        id == Len(sent)
    IN  IF Len(settles) < id
        THEN [prompts |-> sent, pc |-> "awaiting", result |-> <<>>, thrown |-> <<>>]
        ELSE LET outcome == IF settles[id].settled = "rejected"
                            THEN [ok |-> FALSE, error |-> AdapterError(settles[id].value, id)]
                            ELSE parseJsonNoLog(settles[id].value, id)
             IN  IF outcome.ok
                 THEN [prompts |-> sent, pc |-> "resolved",
                       result |-> <<[data |-> outcome.data,
                                     metadata |-> [retryCount |-> retryCount,
                                                   wasRepaired |-> outcome.wasRepaired]]>>,
                       thrown |-> <<>>]
                 ELSE IF retryCount < finalMaxRetries
                 THEN LET errorMessage == IF outcome.error.name = "ZodError"
                                          THEN TreeifyString(outcome.error.issues)
                                          ELSE outcome.error.message
                          repairPromptText ==
                              ApplyRepairPromptFn(
                                 Coalesce(self.repairPrompt.fn, "defaultRepairPromptFn"),
                                 Coalesce(self.repairPrompt.prefix, defaultRepairPromptPrefix),
                                 errorMessage)
                      IN  generateJsonNoLog(self,
                             [options EXCEPT
                                 !.prompt = options.prompt \o <<"\n\n">> \o repairPromptText,
                                 !.retryCount = <<retryCount + 1>>,
                                 !.maxRetries = <<finalMaxRetries>>],
                             settles, sent)
                 ELSE [prompts |-> sent, pc |-> "rejected", result |-> <<>>,
                       thrown |-> <<outcome.error>>]

----------------------------------------------------------------------------
\* C20: logging does not affect behaviour: whatever the logging option (absent,
\* enabled or disabled, any level), the call makes the same adapter invocations with
\* the same prompts and ends in the same outcome (same data and metadata, or the same
\* rejection) as the version without logging does on an instance constructed with the
\* same other options, for the same call options and the same adapter settlements.
Settlements ==
    [i \in 1..Len(attempts) |-> [settled |-> attempts[i].settled, value |-> attempts[i].value]]

PromptsSent == [i \in 1..Len(calls) |-> calls[i].jsonPrompt]

WithoutLogging ==
    generateJsonNoLog(ConstructorNoLog(lsofOptions), StartOptions, Settlements, <<>>)

C20_LoggingIsNotBehaviourAffecting ==
    Started =>
       /\ PromptsSent = WithoutLogging.prompts
       /\ pc = WithoutLogging.pc
       /\ result = WithoutLogging.result
       /\ thrown = WithoutLogging.thrown

C20_Witness ==
    /\ lsofOptions.logging = <<[enabled |-> <<TRUE>>, level |-> <<"debug">>]>>
    /\ pc = "resolved"
    /\ Len(calls) = 2
    /\ Len(logs) = 10
    /\ logs[5].message = "Generation failed, retrying..."
    /\ Len(Instruction(2)) > Len(Slice(Instruction(2), InstructionSliceLength))

----------------------------------------------------------------------------
\* One call run alone on the instance: generateJson as a function of the call's
\* options and of how its adapter invocations settle; made holds the invocations
\* made before this one, and the run stops awaiting when settles has no settlement
\* for its invocation
RECURSIVE generateJsonAlone(_, _, _)
generateJsonAlone(options, settles, made) ==
    LET entered == [options |-> options,
                    retryCount |-> Coalesce(options.retryCount, 0),
                    finalMaxRetries |-> ResolveMaxRetries(options.maxRetries)]
        sent == Append(made,
                   [frame |-> entered,
                    jsonPrompt |-> buildPrompt(options.prefix, options.prompt,
                                               options.jsonSchemaIndent)])
        id == Len(sent)
    IN  IF Len(settles) < id
        THEN [calls |-> sent, pc |-> "awaiting", result |-> <<>>, thrown |-> <<>>]
        ELSE LET outcome == IF settles[id].settled = "rejected"
                            THEN [ok |-> FALSE, error |-> AdapterError(settles[id].value, id)]
                            ELSE parseJson(settles[id].value, id)
             IN  IF outcome.ok
                 THEN [calls |-> sent, pc |-> "resolved",
                       result |-> <<MakeResult(outcome.data, entered.retryCount,
                                               outcome.wasRepaired)>>,
                       thrown |-> <<>>]
                 ELSE IF ShouldRetry(entered.retryCount, entered.finalMaxRetries)
                 THEN generateJsonAlone(
                         [options EXCEPT
                             !.prompt = options.prompt \o <<"\n\n">> \o
                                ApplyRepairPromptFn(
                                   Coalesce(repairPrompt.fn, "defaultRepairPromptFn"),
                                   Coalesce(repairPrompt.prefix, defaultRepairPromptPrefix),
                                   ErrorMessage(outcome.error)),
                             !.retryCount = <<entered.retryCount + 1>>,
                             !.maxRetries = <<entered.finalMaxRetries>>],
                         settles, sent)
                 ELSE [calls |-> sent, pc |-> "rejected", result |-> <<>>,
                       thrown |-> <<Rethrow(outcome.error)>>]

\* the calls made on the instance, each with its state
CallsInProgress ==
    {[id |-> current, pc |-> pc, frame |-> frame, calls |-> calls, attempts |-> attempts,
      result |-> result, thrown |-> thrown]} \cup {other[i] : i \in 1..Len(other)}

SettlementsOf(c) ==
    [i \in 1..Len(c.attempts) |->
        [settled |-> c.attempts[i].settled, value |-> c.attempts[i].value]]

----------------------------------------------------------------------------
\* C12: generateJson calls running concurrently on one instance do not interfere,
\* whatever the interleaving of their awaits: each call's retryCount, instruction,
\* adapter invocations and result are those of the same call run alone with the same
\* options and adapter settlements; the instance's configuration never changes.
C12_ConcurrentCallsDoNotInterfere ==
    /\ defaultMaxRetries = Constructor(lsofOptions).defaultMaxRetries
    /\ repairPrompt = Constructor(lsofOptions).repairPrompt
    /\ \A c \in CallsInProgress :
          c.calls # <<>> =>
             LET alone == generateJsonAlone(c.calls[1].frame.options, SettlementsOf(c), <<>>)
             IN  /\ c.calls[1].frame.options.prompt = ConcurrentPrompt(c.id)
                 /\ c.calls = alone.calls
                 /\ c.frame = alone.calls[Len(alone.calls)].frame
                 /\ c.pc = alone.pc
                 /\ c.result = alone.result
                 /\ c.thrown = alone.thrown

C12_Witness ==
    /\ other # <<>>
    /\ pc = "awaiting"
    /\ other[1].pc = "awaiting"
    /\ Len(calls) = 3
    /\ Len(other[1].calls) = 2
    /\ frame.retryCount = 2
    /\ other[1].frame.retryCount = 1
    /\ attempts[1].value = RawGarbage
    /\ other[1].attempts[1].value = RawViolating

----------------------------------------------------------------------------
\* C21: a caller may pass an initial retryCount r0.  Whatever r0 and the bound: at
\* least one attempt is made; the attempts run at retryCount r0, r0 + 1, ... and none
\* exceeds max(r0, bound); under persistent failure the adapter is invoked exactly
\* max(1, bound - r0 + 1) times; a result reports r0 plus the failed attempts of the call.
CallerRetryCount == Coalesce(StartOptions.retryCount, 0)

Max(a, b) == IF a >= b THEN a ELSE b

InvocationsUnderPersistentFailure == Max(1, Bound - CallerRetryCount + 1)

C21_CallerSuppliedRetryCount ==
    Started =>
       /\ pc \in {"resolved", "rejected"} => Len(attempts) >= 1
       /\ \A k \in 1..Len(calls) :
             /\ calls[k].frame.retryCount = CallerRetryCount + k - 1
             /\ calls[k].frame.retryCount <= Max(CallerRetryCount, Bound)
       /\ Len(calls) <= InvocationsUnderPersistentFailure
       /\ pc = "rejected" =>
             /\ Len(calls) = InvocationsUnderPersistentFailure
             /\ FailedAttempts = 1..Len(calls)
       /\ (FailedAttempts = 1..Len(attempts)
              /\ Len(attempts) = InvocationsUnderPersistentFailure) => pc = "rejected"
       /\ pc = "resolved" =>
             result[1].metadata.retryCount = CallerRetryCount + Cardinality(FailedAttempts)

C21_Witness ==
    /\ pc = "rejected"
    /\ StartOptions.retryCount = <<1>>
    /\ Bound = 0
    /\ Len(calls) = 1
    /\ frame.retryCount = 1
    /\ LastAttempt.value = RawViolating

====
